---------------------------- MODULE Spec2Model ----------------------------
(***************************************************************************)
(* State-machine model of the capability (zcap) client of the KMS BDD      *)
(* steps (test/bdd, package kms): delegation of capabilities, the          *)
(* capability-invocation header and HTTP message signature, and the        *)
(* fan-out / fan-in harness of makeParallelCreateKeyReqs; and of the       *)
(* metrics singleton of pkg/metrics.                                       *)
(***************************************************************************)
EXTENDS Naturals, Sequences, FiniteSets, TLC

VARIABLES
    users,      \* Steps.users: the user records, by name
    last,       \* outcome of the step that ran last (locals of the handler)
    wire,       \* the request the last step handed to httpClient.Do, if any
    verdict,    \* the verifier's decision on the request on the wire
    par,        \* the state of one makeParallelCreateKeyReqs call
    met         \* package metrics: createOnce, instance, and the callers of Get

vars == <<users, last, wire, verdict, par, met>>

-----------------------------------------------------------------------------
(* Bounds *)

\* longest capabilityChain a capability handed out by a server carries
MaxChain == 1
\* most key types one makeParallelCreateKeyReqs call is given
MaxReqs == 2

-----------------------------------------------------------------------------
(* Principals, actions, identifiers *)

Users == {"alice", "bob"}

\* names a scenario may use for a recipient; "carol" was never created
Names == Users \cup {"carol"}

\* user.controller: the did:key of the user's signing key
Controller(u) == IF u = "alice" THEN "did:key:alice" ELSE "did:key:bob"

actionCreateKey == "createKey"
actionExportKey == "exportKey"
edvResource == "urn:edv:vault"
kmsResource == "urn:kms:keystore"

\* identifiers zcapld.NewCapability draws for a new capability (random UUIDs)
FreshIds == {"urn:uuid:d1", "urn:uuid:d2"}

\* identifier of the capability a server issued for a user's resource
ServerCapId(u) == IF u = "alice" THEN "urn:zcap:alice" ELSE "urn:zcap:bob"

\* identifier of an ancestor capability the client never saw
AncestorId == "urn:zcap:root"

KeystoreOf(u) == IF u = "alice" THEN "ks-alice" ELSE "ks-bob"
VaultOf(u) == IF u = "alice" THEN "vault-alice" ELSE "vault-bob"

-----------------------------------------------------------------------------
(* Capability documents *)

\* the document a proof's signature covers (the canonicalised capability)
Doc(id, invoker, parent, target, actions, chain) ==
    <<id, invoker, parent, target.id, target.type, actions, chain>>

NilCap ==
    [id |-> "", invoker |-> "", parent |-> "",
     invocationTarget |-> [id |-> "", type |-> ""],
     allowedAction |-> <<>>, proof |-> <<>>]

Range(s) == {s[i] : i \in 1..Len(s)}

ActionSet(c) == Range(c.allowedAction)

\* the chain of a capability: the snapshot its first proof carries
CapabilityChain(c) ==
    IF c.proof # <<>> /\ c.proof[1].hasChain THEN c.proof[1].capabilityChain ELSE <<>>

NoRepeat(s) == \A i, j \in 1..Len(s) : s[i] = s[j] => i = j

\* zcapld.NewCapability as the two call sites use it: the options set the
\* fields, the chain goes into the proof, and the signer signs the document.
NewCapability(signer, id, invoker, parent, target, actions, chain) ==
    [id |-> id, invoker |-> invoker, parent |-> parent,
     invocationTarget |-> target, allowedAction |-> actions,
     proof |-> << [verificationMethod |-> signer.verificationMethod,
                   proofPurpose |-> "capabilityDelegation",
                   hasChain |-> TRUE,
                   capabilityChain |-> chain,
                   signatureValue |->
                       [key |-> signer.key,
                        doc |-> Doc(id, invoker, parent, target, actions, chain)]] >>]

\* sequences over S of length 0..n
RECURSIVE SeqsUpTo(_, _)
SeqsUpTo(S, n) ==
    IF n = 0 THEN {<<>>}
    ELSE LET shorter == SeqsUpTo(S, n - 1)
         IN shorter \cup {Append(s, x) : s \in {t \in shorter : Len(t) = n - 1}, x \in S}

\* a capability as a server's response carries it: one proof, signed by the
\* server, whose chain snapshot may be missing, empty, or name ancestors
ServerCap(issuer, id, invoker, target, actions, hasChain, chain) ==
    LET parent == IF chain = <<>> THEN "" ELSE chain[Len(chain)]
    IN [id |-> id, invoker |-> invoker, parent |-> parent,
        invocationTarget |-> target, allowedAction |-> actions,
        proof |-> << [verificationMethod |-> issuer,
                      proofPurpose |-> "capabilityDelegation",
                      hasChain |-> hasChain,
                      capabilityChain |-> chain,
                      signatureValue |->
                          [key |-> issuer,
                           doc |-> Doc(id, invoker, parent, target, actions, chain)]] >>]

ChainChoices(id) ==
    {<<FALSE, <<>>>>} \cup {<<TRUE, s>> : s \in SeqsUpTo({AncestorId, id}, MaxChain)}

\* what parseRootCapability may hand back for user u's keystore
KmsCaps(u) ==
    {ServerCap("did:key:kms", ServerCapId(u), Controller(u),
               [id |-> KeystoreOf(u), type |-> kmsResource], a, ch[1], ch[2]) :
        a \in {<<actionCreateKey, actionExportKey>>, <<actionCreateKey>>, <<actionExportKey>>},
        ch \in ChainChoices(ServerCapId(u))}

\* the capability of a well-behaved key server for the keystore of u
KmsRootCap(u) ==
    ServerCap("did:key:kms", ServerCapId(u), Controller(u),
              [id |-> KeystoreOf(u), type |-> kmsResource],
              <<actionCreateKey, actionExportKey>>, FALSE, <<>>)

\* what the EDV server may hand back for user u's vault: the vault it names
\* in the Location header (vaultID) and the capability in the body
EdvCaps(u) ==
    {ServerCap("did:key:edv", ServerCapId(u), Controller(u),
               [id |-> v, type |-> edvResource], a, ch[1], ch[2]) :
        v \in {VaultOf(u), "vault-other"},
        a \in {<<"read", "write">>, <<"read">>},
        ch \in ChainChoices(ServerCapId(u))}

\* the capability of a well-behaved EDV server for the vault of u
EdvRootCap(u) ==
    ServerCap("did:key:edv", ServerCapId(u), Controller(u),
              [id |-> VaultOf(u), type |-> edvResource], <<"read", "write">>, FALSE, <<>>)

-----------------------------------------------------------------------------
(* Transport encoding of a capability *)

Marshal(c) ==
    <<c.id, c.invoker, c.parent, c.invocationTarget.id, c.invocationTarget.type,
      c.allowedAction, c.proof>>

\* the decoding giving every proof a capabilityChain entry, an empty one
\* where the document has none
UnmarshalChainAlwaysPresent(t) ==
    [id |-> t[1], invoker |-> t[2], parent |-> t[3],
     invocationTarget |-> [id |-> t[4], type |-> t[5]],
     allowedAction |-> t[6],
     proof |-> [k \in 1..Len(t[7]) |-> [t[7][k] EXCEPT !.hasChain = TRUE]]]

Unmarshal(t) ==
    [id |-> t[1], invoker |-> t[2], parent |-> t[3],
     invocationTarget |-> [id |-> t[4], type |-> t[5]],
     allowedAction |-> t[6], proof |-> t[7]]

\* zcapsvc.CompressZCAP: the JSON document, gzipped
CompressZCAP(c) == [enc |-> <<"gzip">>, body |-> Marshal(c)]

\* base64.URLEncoding.EncodeToString
Base64Encode(b) == [b EXCEPT !.enc = <<"base64url">> \o b.enc]

NoBytes == [enc |-> <<>>, body |-> Marshal(NilCap)]

\* Decompress(bytes): gunzip, JSON; the inverse of CompressZCAP
Decompress(b) == IF b.enc = <<"gzip">> THEN Unmarshal(b.body) ELSE NilCap

\* base64.URLEncoding.DecodeString
Base64Decode(h) == IF h.enc # <<>> /\ Head(h.enc) = "base64url"
                   THEN [h EXCEPT !.enc = Tail(@)] ELSE NoBytes

\* the verifier's decoding of the header value: base64, gunzip, JSON
DecompressOK(h) == h.enc = <<"base64url", "gzip">>
DecompressZCAP(h) == IF DecompressOK(h) THEN Decompress(Base64Decode(h)) ELSE NilCap

-----------------------------------------------------------------------------
(* Requests and HTTP message signatures *)

NoSig == [keyId |-> "", key |-> "", covered |-> <<>>]

NoReq ==
    [method |-> "", keystoreID |-> "", endpoint |-> "",
     capability |-> NoBytes, action |-> "", signature |-> NoSig]

\* a message signature over the request line alone
CoveredRequestLineOnly(r) == <<r.method, r.keystoreID, r.endpoint>>

\* the fields of a request the message signature covers: method, path and
\* the capability-invocation header
Covered(r) == <<r.method, r.keystoreID, r.endpoint, r.capability, r.action>>

\* httpsignatures Sign(keyId, request) with the KMS of `owner`
SignHTTP(keyId, owner, r) ==
    [r EXCEPT !.signature = [keyId |-> keyId, key |-> owner, covered |-> Covered(r)]]

\* the principal a signing key belongs to
PrincipalOfKey(k) == IF k \in Users THEN Controller(k) ELSE k

-----------------------------------------------------------------------------
(* Delegation *)

\* errors are the messages of the fmt.Errorf wrappers, outermost first, down
\* to the cause; <<>> is nil
Failed(msg, cause) == [err |-> <<msg, cause>>, bytes |-> NoBytes, cap |-> NilCap]
FailedOn(c, msg, cause) ==
    [err |-> <<msg, cause>>, bytes |-> NoBytes, cap |-> NilCap, c |-> c]

\* delegateCapability building the chain from the parent's Parent field, the
\* way createChainCapability does, instead of from the proof's snapshot
delegateCapabilityFromParentField(c, s, verificationMethod, invoker, id, fail) ==
    LET delegatedCapability ==
            NewCapability([key |-> s, verificationMethod |-> verificationMethod],
                          id, invoker, c.id,
                          [id |-> c.invocationTarget.id, type |-> c.invocationTarget.type],
                          <<actionExportKey>>, <<c.parent, c.id>>)
    IN IF fail = "loader" THEN FailedOn(c, "create document loader", "LoaderError")
       ELSE IF fail = "sign" THEN FailedOn(c, "failed to delegate zcap unto user", "SignError")
       ELSE IF fail = "compress" THEN FailedOn(c, "failed to compress zcap", "CompressionError")
       ELSE [err |-> <<>>, bytes |-> CompressZCAP(delegatedCapability),
             cap |-> delegatedCapability, c |-> c]

\* delegateCapability naming the new invoker as the proof's verification method
delegateCapabilityInvokerAsMethod(c, s, verificationMethod, invoker, id, fail) ==
    LET ok == c.proof[1].hasChain
        untyped == IF ok THEN c.proof[1].capabilityChain ELSE <<>>
        chain == Append(untyped, c.id)
        delegatedCapability ==
            NewCapability([key |-> s, verificationMethod |-> invoker],
                          id, invoker, c.id,
                          [id |-> c.invocationTarget.id, type |-> c.invocationTarget.type],
                          <<actionExportKey>>, chain)
    IN IF fail = "loader" THEN FailedOn(c, "create document loader", "LoaderError")
       ELSE IF fail = "sign" THEN FailedOn(c, "failed to delegate zcap unto user", "SignError")
       ELSE IF fail = "compress" THEN FailedOn(c, "failed to compress zcap", "CompressionError")
       ELSE [err |-> <<>>, bytes |-> CompressZCAP(delegatedCapability),
             cap |-> delegatedCapability, c |-> c]

\* delegateCapability storing the chain it built in the parent's proof
delegateCapabilityWritingParent(c, s, verificationMethod, invoker, id, fail) ==
    LET ok == c.proof[1].hasChain
        untyped == IF ok THEN c.proof[1].capabilityChain ELSE <<>>
        chain == Append(untyped, c.id)
        delegatedCapability ==
            NewCapability([key |-> s, verificationMethod |-> verificationMethod],
                          id, invoker, c.id,
                          [id |-> c.invocationTarget.id, type |-> c.invocationTarget.type],
                          <<actionExportKey>>, chain)
        written == [c EXCEPT !.proof[1].hasChain = TRUE,
                             !.proof[1].capabilityChain = chain]
    IN IF fail = "loader" THEN FailedOn(written, "create document loader", "LoaderError")
       ELSE IF fail = "sign"
       THEN FailedOn(written, "failed to delegate zcap unto user", "SignError")
       ELSE IF fail = "compress"
       THEN FailedOn(written, "failed to compress zcap", "CompressionError")
       ELSE [err |-> <<>>, bytes |-> CompressZCAP(delegatedCapability),
             cap |-> delegatedCapability, c |-> written]

\* delegateCapability(c, s, verificationMethod, invoker): `id` is the
\* identifier NewCapability draws, `fail` the step that fails, if any; the
\* result's c is the capability behind the pointer c as the call leaves it
delegateCapability(c, s, verificationMethod, invoker, id, fail) ==
    LET ok == c.proof[1].hasChain
        untyped == IF ok THEN c.proof[1].capabilityChain ELSE <<>>
        chain == Append(untyped, c.id)
        delegatedCapability ==
            NewCapability([key |-> s, verificationMethod |-> verificationMethod],
                          id, invoker, c.id,
                          [id |-> c.invocationTarget.id, type |-> c.invocationTarget.type],
                          <<actionExportKey>>, chain)
    IN IF fail = "loader" THEN FailedOn(c, "create document loader", "LoaderError")
       ELSE IF fail = "sign" THEN FailedOn(c, "failed to delegate zcap unto user", "SignError")
       ELSE IF fail = "compress" THEN FailedOn(c, "failed to compress zcap", "CompressionError")
       ELSE [err |-> <<>>, bytes |-> CompressZCAP(delegatedCapability),
             cap |-> delegatedCapability, c |-> c]

\* Steps.createChainCapability(u), u the user record of `name`
createChainCapability(u, name, id, fail) ==
    IF fail = "loader" THEN Failed("create document loader", "LoaderError")
    ELSE IF fail = "sign" THEN Failed("new capability", "SignError")
    ELSE LET c == NewCapability([key |-> name, verificationMethod |-> Controller(name)],
                                id, u.edvDID, u.edvCapability.id,
                                [id |-> u.vaultID, type |-> edvResource],
                                <<"read", "write">>,
                                <<u.edvCapability.parent, u.edvCapability.id>>)
         IN [err |-> <<>>, bytes |-> NoBytes, cap |-> c]

-----------------------------------------------------------------------------
(* Attaching the capability and signing the request *)

\* setCapabilityHeader naming the create-key action in the header
setCapabilityHeaderCreateKeyAction(request, capability, controller, owner, fail) ==
    LET withHeader == [request EXCEPT !.capability = capability,
                                      !.action = actionCreateKey]
    IN IF fail = "hsSign"
       THEN [err |-> <<"user failed to sign request", "SignError">>, req |-> withHeader]
       ELSE [err |-> <<>>, req |-> SignHTTP(controller, owner, withHeader)]

\* setCapabilityHeader(request, capability, controller, k, c): the header is
\* set first, then the request is signed under key id `controller` with the
\* KMS of `owner`; on a signing failure the header stays set, unsigned
setCapabilityHeader(request, capability, controller, owner, fail) ==
    LET withHeader == [request EXCEPT !.capability = capability,
                                      !.action = actionExportKey]
    IN IF fail = "hsSign"
       THEN [err |-> <<"user failed to sign request", "SignError">>, req |-> withHeader]
       ELSE [err |-> <<>>, req |-> SignHTTP(controller, owner, withHeader)]

\* user.SetCapabilityInvocation(req, action): attaches the user's own
\* capability, compressed, and the action; the action must be one the
\* capability allows
SetCapabilityInvocation(u, req, action) ==
    IF action \notin ActionSet(u.kmsCapability)
    THEN [err |-> <<"InvocationError">>, req |-> req]
    ELSE [err |-> <<>>,
          req |-> [req EXCEPT !.capability = Base64Encode(CompressZCAP(u.kmsCapability)),
                              !.action = action]]

\* user.Sign(req): the HTTP message signature under the user's own key
Sign(name, req, fail) ==
    IF fail = "sign" THEN [err |-> <<"SignError">>, req |-> req]
    ELSE [err |-> <<>>, req |-> SignHTTP(Controller(name), name, req)]

\* user.preparePostRequest / prepareGetRequest: the URL names the keystore
prepareRequest(u, method, endpoint) ==
    [NoReq EXCEPT !.method = method, !.keystoreID = u.keystoreID, !.endpoint = endpoint]

\* buildCreateKeyReq going on to sign when SetCapabilityInvocation failed
buildCreateKeyReqIgnoringInvocationError(u, name, fail) ==
    LET req == prepareRequest(u, "POST", "keys")
        inv == SetCapabilityInvocation(u, req, actionCreateKey)
        sig == Sign(name, inv.req, fail)
    IN IF fail = "prepare"
       THEN [err |-> <<"RequestError">>, req |-> NoReq, signed |-> FALSE]
       ELSE IF sig.err # <<>>
       THEN [err |-> <<"user failed to sign http message">> \o sig.err,
             req |-> sig.req, signed |-> FALSE]
       ELSE [err |-> <<>>, req |-> sig.req, signed |-> TRUE]

\* buildCreateKeyReq(u, endpoint, keyType)
buildCreateKeyReq(u, name, fail) ==
    LET req == prepareRequest(u, "POST", "keys")
        inv == SetCapabilityInvocation(u, req, actionCreateKey)
        sig == Sign(name, inv.req, fail)
    IN IF fail = "prepare"
       THEN [err |-> <<"RequestError">>, req |-> NoReq, signed |-> FALSE]
       ELSE IF inv.err # <<>>
       THEN [err |-> <<"failed to set capability invocation">> \o inv.err,
             req |-> inv.req, signed |-> FALSE]
       ELSE IF sig.err # <<>>
       THEN [err |-> <<"user failed to sign http message">> \o sig.err,
             req |-> sig.req, signed |-> FALSE]
       ELSE [err |-> <<>>, req |-> sig.req, signed |-> TRUE]

-----------------------------------------------------------------------------
(* The verifier: the five checks of the invocation protocol *)

\* every proof is a signature over the document as it stands, made with the
\* key of the stated verification method
ProofValid(c) ==
    /\ c.proof # <<>>
    /\ \A i \in 1..Len(c.proof) :
          /\ c.proof[i].signatureValue.doc =
                 Doc(c.id, c.invoker, c.parent, c.invocationTarget, c.allowedAction,
                     IF c.proof[i].hasChain THEN c.proof[i].capabilityChain ELSE <<>>)
          /\ PrincipalOfKey(c.proof[i].signatureValue.key) = c.proof[i].verificationMethod

\* the chain-of-custody invariants of one delegation hop, d delegated from p
HopOK(d, p) ==
    /\ CapabilityChain(d) = Append(CapabilityChain(p), p.id)
    /\ NoRepeat(CapabilityChain(d))
    /\ d.parent = p.id
    /\ ActionSet(d) \subseteq ActionSet(p)
    /\ d.invocationTarget = p.invocationTarget
    /\ ProofValid(d)
    /\ d.proof[1].verificationMethod = p.invoker

\* a root capability is one the server issued itself
RootOK(c, registry) ==
    /\ c \in registry
    /\ CapabilityChain(c) = <<>>
    /\ c.parent = ""
    /\ ProofValid(c)

RECURSIVE ChainOK(_, _)
ChainOK(c, registry) ==
    LET chain == CapabilityChain(c)
    IN IF chain = <<>> THEN RootOK(c, registry)
       ELSE \E p \in registry :
               /\ p.id = chain[Len(chain)]
               /\ HopOK(c, p)
               /\ ChainOK(p, registry)

ActionPermitted(req) == req.action \in ActionSet(DecompressZCAP(req.capability))

TargetMatches(req) ==
    DecompressZCAP(req.capability).invocationTarget =
        [id |-> req.keystoreID, type |-> kmsResource]

\* the message signature covers the request as received and was made with
\* the key of the leaf capability's invoker
SignatureValid(req) ==
    /\ req.signature.covered = Covered(req)
    /\ req.signature.keyId = DecompressZCAP(req.capability).invoker
    /\ PrincipalOfKey(req.signature.key) = req.signature.keyId

\* the verifier without the walk along the chain
FailedCheckWithoutChainWalk(req, registry) ==
    IF ~DecompressOK(req.capability) THEN 1
    ELSE IF ~ActionPermitted(req) THEN 3
    ELSE IF ~TargetMatches(req) THEN 4
    ELSE IF ~SignatureValid(req) THEN 5
    ELSE 0

\* the number of the first check that fails, 0 when all five pass
FailedCheck(req, registry) ==
    IF ~DecompressOK(req.capability) THEN 1
    ELSE IF ~ChainOK(DecompressZCAP(req.capability), registry) THEN 2
    ELSE IF ~ActionPermitted(req) THEN 3
    ELSE IF ~TargetMatches(req) THEN 4
    ELSE IF ~SignatureValid(req) THEN 5
    ELSE 0

Authorize(req, registry) ==
    IF FailedCheck(req, registry) = 0 THEN "authorized" ELSE "rejected"

\* the capabilities the key server issued and can resolve by identifier
Registry == {users[u].kmsCapability : u \in Users} \ {NilCap}

\* no decision yet; forged and orig record an alteration in flight and the
\* request as it was sent
NoVerdict == [decision |-> "none", forged |-> FALSE, orig |-> NoReq]

-----------------------------------------------------------------------------
(* makeParallelCreateKeyReqs: the aggregator and its workers *)

\* most calls of makeParallelCreateKeyReqs in one scenario
MaxBatches == 2

Units == 1..MaxReqs

\* response statuses a worker may read off its response
Statuses == {"201 Created", "403 Forbidden"}

\* one call: the aggregator's position and locals, the two channels, and for
\* each worker goroutine its position and its private user record
ParIdle ==
    [pc |-> "idle",                       \* idle, dispatch, wait, returned
     user |-> "",                         \* u.name
     n |-> 0,                             \* len(rr)
     dispatched |-> 0,                    \* goroutines started so far
     wpc |-> [i \in Units |-> "none"],    \* none, do, process, sendErr, done
     arg |-> [i \in Units |-> 0],         \* req: the request bound to worker i
     rec |-> [i \in Units |-> 0],         \* usr: the user record worker i made
     resp |-> [i \in Units |-> 0],        \* the request worker i's response answers
     got |-> [i \in Units |-> ""],        \* the status worker i read off its response
     usr |-> [k \in Units |-> ""],        \* response.status of user record k
     werr |-> [i \in Units |-> <<>>],     \* the error worker i sends or sent
     statusCh |-> <<>>,                   \* buffered, capacity len(rr)
     respCount |-> 0,
     multiRespStatus |-> <<>>,            \* the aggregator's local slice
     ret |-> <<>>,                        \* the error returned, <<>> for nil
     calls |-> [i \in Units |-> 0],       \* httpClient.Do calls of worker i
     received |-> [i \in Units |-> 0],    \* outcomes of unit i the aggregator took
     reported |-> [i \in Units |-> 0],    \* channel sends worker i completed
     batch |-> 0,                         \* calls made so far
     leaked |-> 0]                        \* goroutines of earlier calls still blocked

-----------------------------------------------------------------------------
(* package metrics: the state of the singleton *)

MaxGetters == 2
MaxGets == 2

\* the goroutines calling metrics.Get
Getters == 1..MaxGetters

\* the collectors newMetrics registers, one entry per MustRegister statement
\* or loop, in the order of the code
RegisterGroups ==
    <<"single", "dbPut", "dbGet", "dbGetTags", "dbGetBulk", "dbBatch", "dbDelete",
      "dbQuery">>

\* the name constants of the package
namespace == "kms"
crypto == "crypto"
cryptoSignTimeMetric == "sign_seconds"
db == "db"
dbPutTimeMetric == "put_seconds"
dbGetTimeMetric == "get_seconds"
dbGetTagsTimeMetric == "get_tags_seconds"
dbGetBulkTimeMetric == "get_bulk_seconds"
dbQueryTimeMetric == "query_seconds"
dbDeleteTimeMetric == "delete_seconds"
dbBatchTimeMetric == "batch_seconds"
keyStore == "key_store"
keyStoreResolveTimeMetric == "resolve_seconds"
keyStoreGetKeyTimeMetric == "get_key_seconds"

\* dbTypes of newMetrics
dbTypes == <<"CouchDB", "MongoDB", "EDV">>

\* prometheus.BuildFQName: the non-empty parts joined by "_", "" without a name
BuildFQName(ns, subsystem, name) ==
    IF name = "" THEN ""
    ELSE (IF ns = "" THEN "" ELSE ns \o "_")
             \o (IF subsystem = "" THEN "" ELSE subsystem \o "_") \o name

\* nil labels
NoLabels == {}

\* newHistogram with the constant labels left out
newHistogramWithoutLabels(subsystem, name, help, labels) ==
    [fqName |-> BuildFQName(namespace, subsystem, name),
     help |-> help,
     constLabels |-> NoLabels]

\* newHistogram(subsystem, name, help, labels): the descriptor of the
\* histogram, labels a set of <<name, value>> pairs
newHistogram(subsystem, name, help, labels) ==
    [fqName |-> BuildFQName(namespace, subsystem, name),
     help |-> help,
     constLabels |-> labels]

newCryptoSignTime ==
    newHistogram(crypto, cryptoSignTimeMetric,
                 "The time (in seconds) that it takes to sign message.", NoLabels)

newDBPutTime(types) ==
    [dbType \in Range(types) |->
        newHistogram(db, dbPutTimeMetric,
                     "The time (in seconds) it takes the DB to store data.",
                     {<<"type", dbType>>})]

newDBGetTime(types) ==
    [dbType \in Range(types) |->
        newHistogram(db, dbGetTimeMetric,
                     "The time (in seconds) it takes the DB to get data.",
                     {<<"type", dbType>>})]

newDBGetTagsTime(types) ==
    [dbType \in Range(types) |->
        newHistogram(db, dbGetTagsTimeMetric,
                     "The time (in seconds) it takes the DB to get tags.",
                     {<<"type", dbType>>})]

newDBGetBulkTime(types) ==
    [dbType \in Range(types) |->
        newHistogram(db, dbGetBulkTimeMetric,
                     "The time (in seconds) it takes the DB to get bulk.",
                     {<<"type", dbType>>})]

newDBQueryTime(types) ==
    [dbType \in Range(types) |->
        newHistogram(db, dbQueryTimeMetric,
                     "The time (in seconds) it takes the DB to query.",
                     {<<"type", dbType>>})]

newDBDeleteTime(types) ==
    [dbType \in Range(types) |->
        newHistogram(db, dbDeleteTimeMetric,
                     "The time (in seconds) it takes the DB to delete.",
                     {<<"type", dbType>>})]

newDBBatchTime(types) ==
    [dbType \in Range(types) |->
        newHistogram(db, dbBatchTimeMetric,
                     "The time (in seconds) it takes the DB to batch.",
                     {<<"type", dbType>>})]

newKeyStoreResolveTime ==
    newHistogram(keyStore, keyStoreResolveTimeMetric,
                 "The time (in seconds) that it takes to resolve keystore.", NoLabels)

newKeyStoreGetKeyTime ==
    newHistogram(keyStore, keyStoreGetKeyTimeMetric,
                 "The time (in seconds) that it takes to get key from keystore.",
                 NoLabels)

\* newMetrics: the Metrics struct with its histograms
newMetrics ==
    [cryptoSignTime |-> newCryptoSignTime,
     dbPutTimes |-> newDBPutTime(dbTypes),
     dbGetTimes |-> newDBGetTime(dbTypes),
     dbGetTagsTimes |-> newDBGetTagsTime(dbTypes),
     dbGetBulkTimes |-> newDBGetBulkTime(dbTypes),
     dbQueryTimes |-> newDBQueryTime(dbTypes),
     dbDeleteTimes |-> newDBDeleteTime(dbTypes),
     dbBatchTimes |-> newDBBatchTime(dbTypes),
     keyStoreResolveTime |-> newKeyStoreResolveTime,
     keyStoreGetKeyTime |-> newKeyStoreGetKeyTime]

\* the fields of Metrics holding one histogram, and those holding a map
SingleFields == {"cryptoSignTime", "keyStoreResolveTime", "keyStoreGetKeyTime"}
MapFields ==
    {"dbPutTimes", "dbGetTimes", "dbGetTagsTimes", "dbGetBulkTimes", "dbQueryTimes",
     "dbDeleteTimes", "dbBatchTimes"}

\* the histogram objects of a Metrics: a field, and for a map field a key
HistKeys ==
    {<<f, "">> : f \in SingleFields}
        \cup {<<f, t>> : f \in MapFields, t \in Range(dbTypes)}

HistogramAt(m, k) == IF k[1] \in SingleFields THEN m[k[1]] ELSE m[k[1]][k[2]]

\* the registry's identity of a collector (name and constant label values)
\* and its dimensions (label names and help), as prometheus.Register uses them
DescID(h) == <<h.fqName, {l[2] : l \in h.constLabels}>>
Dim(h) == <<{l[1] : l \in h.constLabels}, h.help>>

\* prometheus.Register(c) on the registry reg
Register(c, reg) ==
    IF \E d \in reg : DescID(d) = DescID(c)
    THEN [ok |-> FALSE, reg |-> reg]
    ELSE IF \E d \in reg : d.fqName = c.fqName /\ Dim(d) # Dim(c)
    THEN [ok |-> FALSE, reg |-> reg]
    ELSE [ok |-> TRUE, reg |-> reg \cup {c}]

\* prometheus.MustRegister(cs...): the collectors one after the other, up to
\* the first that fails
RECURSIVE RegisterAll(_, _)
RegisterAll(cs, reg) ==
    IF cs = <<>> THEN [ok |-> TRUE, reg |-> reg]
    ELSE LET r == Register(Head(cs), reg)
         IN IF r.ok THEN RegisterAll(Tail(cs), r.reg) ELSE r

\* the collectors of one MustRegister statement or loop of newMetrics, in
\* every order the code may take them: the arguments in order, a map in any
CollectorOrders(m, group) ==
    IF group = "single"
    THEN {<<m.cryptoSignTime, m.keyStoreResolveTime, m.keyStoreGetKeyTime>>}
    ELSE LET family == m[group \o "Times"]
         IN {[i \in 1..Len(dbTypes) |-> family[dbTypes[p[i]]]] :
                p \in Permutations(1..Len(dbTypes))}

\* the db types the timing methods are called with
DbTypeInputs == Range(dbTypes) \cup {"Postgres", ""}

MaxObs == 2

\* createOnce (done flag and mutex holder, 0 when free), instance (0 is nil,
\* k the k-th *Metrics allocated), the default registry (how often each
\* group was registered), and each caller's position in Get
MetIdle ==
    [done |-> FALSE,
     mutex |-> 0,
     instance |-> 0,
     created |-> 0,                            \* runs of newMetrics so far
     m |-> [g \in Getters |-> 0],              \* the *Metrics g's newMetrics is building
     next |-> [g \in Getters |-> 0],           \* groups g's newMetrics has registered
     waited |-> FALSE,                         \* a caller found createOnce held
     registry |-> [k \in 1..Len(RegisterGroups) |-> 0],
     descs |-> {},                             \* the collectors in the default registry
     observed |-> [k \in HistKeys |-> 0],      \* observations each histogram took
     call |-> [method |-> "", dbType |-> ""],  \* the last timing method called
     ncalls |-> 0,                             \* timing methods called so far
     panicked |-> FALSE,
     pc |-> [g \in Getters |-> "idle"],
     ret |-> [g \in Getters |-> 0],            \* what g's last Get returned
     gets |-> [g \in Getters |-> 0]]           \* Get calls g has completed

-----------------------------------------------------------------------------
(* The steps *)

\* the step of a handler that fails, if any
Fails == {"none", "prepare", "loader", "sign", "compress", "hsSign", "httpDo", "response"}

NoStep ==
    [op |-> "", user |-> "", recipient |-> "", parent |-> NilCap, cap |-> NilCap,
     err |-> <<>>, signed |-> FALSE, sent |-> FALSE]

\* the error a step returns once its request was handed to httpClient.Do
HttpError(fail) ==
    IF fail = "httpDo" THEN <<"http do", "HTTPError">>
    ELSE IF fail = "response" THEN <<"response error", "ResponseError">>
    ELSE <<>>

\* getPubKeyOfRecipient signing the request under the recipient's key id,
\* the delegator's, instead of the user's
GetPubKeyRequestSignedAsRecipient(us, userName, recipientName, id, fail) ==
    IF recipientName \notin DOMAIN us
    THEN [err |-> <<"no recipient">>, parent |-> NilCap, cap |-> NilCap, req |-> NoReq,
          signed |-> FALSE, after |-> NilCap]
    ELSE LET recipient == us[recipientName]
             request == prepareRequest(recipient, "GET", "export")
             d == delegateCapability(recipient.kmsCapability, recipientName,
                                     Controller(recipientName), Controller(userName),
                                     id, fail)
             h == setCapabilityHeader(request, Base64Encode(d.bytes),
                                      Controller(recipientName), recipientName, fail)
         IN IF fail = "prepare"
            THEN [err |-> <<"RequestError">>, parent |-> NilCap,
                  cap |-> NilCap, req |-> NoReq, signed |-> FALSE,
                  after |-> recipient.kmsCapability]
            ELSE IF d.err # <<>>
            THEN [err |-> <<"delegate capability">> \o d.err,
                  parent |-> recipient.kmsCapability,
                  cap |-> NilCap, req |-> request, signed |-> FALSE, after |-> d.c]
            ELSE IF h.err # <<>>
            THEN [err |-> h.err, parent |-> recipient.kmsCapability,
                  cap |-> d.cap, req |-> h.req, signed |-> FALSE, after |-> d.c]
            ELSE [err |-> <<>>, parent |-> recipient.kmsCapability,
                  cap |-> d.cap, req |-> h.req, signed |-> TRUE, after |-> d.c]

\* Steps.getPubKeyOfRecipient up to httpClient.Do: the request it hands over,
\* or the error it returns before
GetPubKeyRequest(us, userName, recipientName, id, fail) ==
    IF recipientName \notin DOMAIN us
    THEN [err |-> <<"no recipient">>, parent |-> NilCap, cap |-> NilCap, req |-> NoReq,
          signed |-> FALSE, after |-> NilCap]
    ELSE LET recipient == us[recipientName]
             request == prepareRequest(recipient, "GET", "export")
             d == delegateCapability(recipient.kmsCapability, recipientName,
                                     Controller(recipientName), Controller(userName),
                                     id, fail)
             h == setCapabilityHeader(request, Base64Encode(d.bytes),
                                      Controller(userName), userName, fail)
         IN IF fail = "prepare"
            THEN [err |-> <<"RequestError">>, parent |-> NilCap,
                  cap |-> NilCap, req |-> NoReq, signed |-> FALSE,
                  after |-> recipient.kmsCapability]
            ELSE IF d.err # <<>>
            THEN [err |-> <<"delegate capability">> \o d.err,
                  parent |-> recipient.kmsCapability,
                  cap |-> NilCap, req |-> request, signed |-> FALSE, after |-> d.c]
            ELSE IF h.err # <<>>
            THEN [err |-> h.err, parent |-> recipient.kmsCapability,
                  cap |-> d.cap, req |-> h.req, signed |-> FALSE, after |-> d.c]
            ELSE [err |-> <<>>, parent |-> recipient.kmsCapability,
                  cap |-> d.cap, req |-> h.req, signed |-> TRUE, after |-> d.c]

getPubKeyOfRecipient(userName, recipientName) ==
    \E id \in FreshIds, fail \in Fails :
        LET run == GetPubKeyRequest(users, userName, recipientName, id, fail)
            sent == run.err = <<>>
        IN /\ last' = [op |-> "getPubKeyOfRecipient", user |-> userName,
                       recipient |-> recipientName, parent |-> run.parent,
                       cap |-> run.cap,
                       err |-> IF sent THEN HttpError(fail) ELSE run.err,
                       signed |-> run.signed, sent |-> sent]
           /\ wire' = IF sent THEN run.req ELSE NoReq
           /\ verdict' = NoVerdict
           /\ users' = IF recipientName \in DOMAIN users
                       THEN [users EXCEPT ![recipientName].kmsCapability = run.after]
                       ELSE users
           /\ UNCHANGED <<par, met>>

\* Steps.makeCreateKeyReq(userName, endpoint, keyType)
makeCreateKeyReq(userName) ==
    \E fail \in {"none", "prepare", "sign", "httpDo", "response"} :
        LET b == buildCreateKeyReq(users[userName], userName, fail)
            sent == b.err = <<>>
        IN /\ last' = [op |-> "makeCreateKeyReq", user |-> userName,
                       recipient |-> "", parent |-> users[userName].kmsCapability,
                       cap |-> NilCap,
                       err |-> IF sent THEN HttpError(fail)
                               ELSE <<"build create key request">> \o b.err,
                       signed |-> b.signed, sent |-> sent]
           /\ wire' = IF sent THEN b.req ELSE NoReq
           /\ verdict' = NoVerdict
           /\ UNCHANGED <<users, par, met>>

\* makeExportPubKeyReq signing the request first and attaching the
\* capability-invocation header to the signed request
ExportPubKeyRequestSignedFirst(u, name, fail) ==
    LET req == prepareRequest(u, "GET", "export")
        sig == Sign(name, req, fail)
        inv == SetCapabilityInvocation(u, sig.req, actionExportKey)
    IN IF fail = "prepare"
       THEN [err |-> <<"RequestError">>, req |-> NoReq, signed |-> FALSE]
       ELSE IF sig.err # <<>>
       THEN [err |-> <<"user failed to sign request">> \o sig.err,
             req |-> sig.req, signed |-> FALSE]
       ELSE IF inv.err # <<>>
       THEN [err |-> <<"user failed to set capability invocation">> \o inv.err,
             req |-> inv.req, signed |-> TRUE]
       ELSE [err |-> <<>>, req |-> inv.req, signed |-> TRUE]

\* Steps.makeExportPubKeyReq up to httpClient.Do: prepareGetRequest,
\* SetCapabilityInvocation, Sign, each error returned at once (the other
\* make*Req steps run the same three calls with their own action)
ExportPubKeyRequest(u, name, fail) ==
    LET req == prepareRequest(u, "GET", "export")
        inv == SetCapabilityInvocation(u, req, actionExportKey)
        sig == Sign(name, inv.req, fail)
    IN IF fail = "prepare"
       THEN [err |-> <<"RequestError">>, req |-> NoReq, signed |-> FALSE]
       ELSE IF inv.err # <<>>
       THEN [err |-> <<"user failed to set capability invocation">> \o inv.err,
             req |-> inv.req, signed |-> FALSE]
       ELSE IF sig.err # <<>>
       THEN [err |-> <<"user failed to sign request">> \o sig.err,
             req |-> sig.req, signed |-> FALSE]
       ELSE [err |-> <<>>, req |-> sig.req, signed |-> TRUE]

\* Steps.makeExportPubKeyReq(userName, endpoint)
makeExportPubKeyReq(userName) ==
    \E fail \in {"none", "prepare", "sign", "httpDo", "response"} :
        LET b == ExportPubKeyRequest(users[userName], userName, fail)
            sent == b.err = <<>>
        IN /\ last' = [op |-> "makeExportPubKeyReq", user |-> userName,
                       recipient |-> "", parent |-> users[userName].kmsCapability,
                       cap |-> NilCap,
                       err |-> IF sent THEN HttpError(fail) ELSE b.err,
                       signed |-> b.signed, sent |-> sent]
           /\ wire' = IF sent THEN b.req ELSE NoReq
           /\ verdict' = NoVerdict
           /\ UNCHANGED <<users, par, met>>

\* Steps.createChainCapability(u), as Steps.createKeystore calls it
mintChainCapability(userName) ==
    \E id \in FreshIds, fail \in {"none", "loader", "sign"} :
        LET r == createChainCapability(users[userName], userName, id, fail)
        IN /\ last' = [op |-> "createChainCapability", user |-> userName,
                       recipient |-> "", parent |-> users[userName].edvCapability,
                       cap |-> r.cap, err |-> r.err,
                       signed |-> FALSE, sent |-> FALSE]
           /\ wire' = NoReq
           /\ verdict' = NoVerdict
           /\ UNCHANGED <<users, par, met>>

-----------------------------------------------------------------------------
(* The network and the key server *)

\* the capability in the header with the parent's id cut off its chain
DropParent(h) ==
    LET c == Unmarshal(h.body)
        chain == c.proof[1].capabilityChain
    IN [h EXCEPT !.body =
           Marshal([c EXCEPT !.proof[1].capabilityChain = SubSeq(chain, 1, Len(chain) - 1)])]

Forgeries == {"corrupt", "dropParent", "action", "redirect", "method", "endpoint", "none"}

Forge(req, kind) ==
    IF kind = "corrupt"
    THEN [req EXCEPT !.capability.enc = <<"base64url", "corrupt">>]
    ELSE IF kind = "dropParent" /\ Unmarshal(req.capability.body).proof # <<>>
    THEN [req EXCEPT !.capability = DropParent(req.capability)]
    ELSE IF kind = "action"
    THEN [req EXCEPT !.action = IF req.action = actionExportKey THEN actionCreateKey
                                 ELSE actionExportKey]
    ELSE IF kind = "redirect"
    THEN [req EXCEPT !.keystoreID = IF req.keystoreID = KeystoreOf("alice")
                                    THEN KeystoreOf("bob") ELSE KeystoreOf("alice")]
    ELSE IF kind = "method"
    THEN [req EXCEPT !.method = IF req.method = "GET" THEN "POST" ELSE "GET"]
    ELSE IF kind = "endpoint"
    THEN [req EXCEPT !.endpoint = IF req.endpoint = "export" THEN "keys" ELSE "export"]
    ELSE req

\* a client other than the BDD steps: it alters one part of a request it has
\* seen and may sign the result with a key of its own
Tamper ==
    /\ wire # NoReq
    /\ ~verdict.forged
    /\ \E kind \in Forgeries, resign \in Users \cup {"keep"} :
          LET forged == Forge(wire, kind)
          IN /\ wire' = IF resign = "keep" THEN forged
                        ELSE SignHTTP(Controller(resign), resign, forged)
             /\ wire' # wire
    /\ verdict' = [decision |-> "none", forged |-> TRUE, orig |-> wire]
    /\ UNCHANGED <<users, last, par, met>>

\* the key server decides on the request it received
Verify ==
    /\ wire # NoReq
    /\ verdict.decision = "none"
    /\ verdict' = [verdict EXCEPT !.decision = Authorize(wire, Registry)]
    /\ UNCHANGED <<users, last, wire, par, met>>

-----------------------------------------------------------------------------
(* Specification of the delegation and invocation steps *)

Other(u) == IF u = "alice" THEN "bob" ELSE "alice"

EdvDidOf(u) == IF u = "alice" THEN "did:key:edv-alice" ELSE "did:key:edv-bob"

\* a user record after the scenario's setup steps, holding the capabilities
\* the servers handed out for its keystore and its vault
UserRecord(u, kmsCap, vault, edvCap) ==
    [keystoreID |-> KeystoreOf(u), kmsCapability |-> kmsCap,
     edvCapability |-> edvCap, vaultID |-> vault,
     edvDID |-> EdvDidOf(u), multiRespStatus |-> <<>>]

\* the users after the setup steps; the key server's answer to one of them
\* is any capability it can send, the other's is the well-formed one
Init ==
    /\ \E u \in Users : \E c \in KmsCaps(u) :
          users = [n \in Users |->
                      UserRecord(n, IF n = u THEN c ELSE KmsRootCap(n),
                                 VaultOf(n), EdvRootCap(n))]
    /\ last = NoStep
    /\ wire = NoReq
    /\ verdict = NoVerdict
    /\ par = ParIdle
    /\ met = MetIdle

Next ==
    \/ \E u \in Users, r \in Names : getPubKeyOfRecipient(u, r)
    \/ \E u \in Users : makeCreateKeyReq(u)
    \/ \E u \in Users : makeExportPubKeyReq(u)
    \/ \E u \in Users : mintChainCapability(u)

Spec == Init /\ [][Next]_vars

\* the same steps with the network and the key server's verifier
\* (httpClient.Do returns once the server has answered: no step starts while
\* a request is undecided)
Pending == wire # NoReq /\ verdict.decision = "none"

NextVerify ==
    \/ ~Pending /\ \E u \in Users, r \in Names : getPubKeyOfRecipient(u, r)
    \/ ~Pending /\ \E u \in Users : makeCreateKeyReq(u)
    \/ Tamper
    \/ Verify

SpecVerify == Init /\ [][NextVerify]_vars

\* createChainCapability over every vault capability the EDV server can send
InitChain ==
    /\ \E u \in Users : \E c \in EdvCaps(u), v \in {VaultOf(u), "vault-other"} :
          users = [n \in Users |->
                      UserRecord(n, KmsRootCap(n),
                                 IF n = u THEN v ELSE VaultOf(n),
                                 IF n = u THEN c ELSE EdvRootCap(n))]
    /\ last = NoStep
    /\ wire = NoReq
    /\ verdict = NoVerdict
    /\ par = ParIdle
    /\ met = MetIdle

NextChain == \E u \in Users : mintChainCapability(u)

SpecChain == InitChain /\ [][NextChain]_vars

-----------------------------------------------------------------------------
(* Keystore creation *)

\* the issuer minting a root capability with its own id as parent and chain
IssueSelfParented(signer, id, invoker, target, actions) ==
    NewCapability(signer, id, invoker, id, target, actions, <<id>>)

\* Issue(signer, invoker, invocationTarget, allowedActions): the key server
\* mints a root capability, with an empty chain and no parent, signed under
\* the owning principal's verification method
Issue(signer, id, invoker, target, actions) ==
    NewCapability(signer, id, invoker, "", target, actions, <<>>)

\* the root capabilities the key server issues for the keystore of u
IssuedCaps(u) ==
    {Issue([key |-> "did:key:kms", verificationMethod |-> "did:key:kms"],
           ServerCapId(u), Controller(u),
           [id |-> KeystoreOf(u), type |-> kmsResource], a) :
        a \in {<<actionCreateKey, actionExportKey>>, <<actionCreateKey>>,
               <<actionExportKey>>}}

\* parseRootCapability(resp.Capability): the capability decoded from the
\* bytes of the response
parseRootCapability(b, fail) ==
    IF fail = "parse" THEN [err |-> <<"ParseError">>, cap |-> NilCap]
    ELSE IF fail = "parseNil" THEN [err |-> <<>>, cap |-> NilCap]
    ELSE [err |-> <<>>, cap |-> Unmarshal(b.body)]

\* a user record before its keystore exists
UserBefore(u) ==
    [UserRecord(u, NilCap, VaultOf(u), EdvRootCap(u)) EXCEPT !.keystoreID = ""]

\* Steps.createKeystoreReq(u, r, endpoint): `capability` is resp.Capability,
\* NoBytes when the response has none.  u.keystoreID is set from the
\* response before the capability is parsed.
createKeystoreReq(userName) ==
    \E fail \in {"none", "prepare", "httpDo", "response", "parse", "parseNil"} :
    \E capability \in {NoBytes} \cup {CompressZCAP(c) : c \in IssuedCaps(userName)} :
        LET u == users[userName]
            answered == fail \notin {"prepare", "httpDo", "response"}
            parsed == parseRootCapability(capability, fail)
            withID == [u EXCEPT !.keystoreID = KeystoreOf(userName)]
            err == IF fail = "prepare" THEN <<"RequestError">>
                   ELSE IF ~answered THEN HttpError(fail)
                   ELSE IF capability # NoBytes /\ parsed.err # <<>>
                   THEN <<"parse root capability">> \o parsed.err
                   ELSE <<>>
        IN /\ users' =
                 [users EXCEPT ![userName] =
                     IF ~answered THEN u
                     ELSE IF capability # NoBytes /\ parsed.err = <<>>
                                                /\ parsed.cap # NilCap
                     THEN [withID EXCEPT !.kmsCapability = parsed.cap]
                     ELSE withID]
           /\ last' = [op |-> "createKeystoreReq", user |-> userName,
                       recipient |-> "", parent |-> NilCap, cap |-> NilCap,
                       err |-> err, signed |-> FALSE, sent |-> fail # "prepare"]
           /\ wire' = NoReq
           /\ verdict' = NoVerdict
           /\ UNCHANGED <<par, met>>

InitKeystore ==
    /\ users = [n \in Users |-> UserBefore(n)]
    /\ last = NoStep
    /\ wire = NoReq
    /\ verdict = NoVerdict
    /\ par = ParIdle
    /\ met = MetIdle

\* keystores are created, and users who have one export each other's keys
NextKeystore ==
    \/ \E u \in Users : createKeystoreReq(u)
    \/ \E u, r \in Users :
          /\ users[u].kmsCapability # NilCap
          /\ users[r].kmsCapability # NilCap
          /\ getPubKeyOfRecipient(u, r)

SpecKeystore == InitKeystore /\ [][NextKeystore]_vars

-----------------------------------------------------------------------------
(* package metrics: Get and newMetrics, with sync.Once.Do as the standard   *)
(* library implements it: an atomic done flag read on the fast path, and a  *)
(* mutex under which done is read again, f is run and done is set           *)

\* a mutex that never holds anybody back
mutexNeverHeld(m) == TRUE

\* createOnce's mutex can be taken
mutexUnlocked(m) == m.mutex = 0

\* a goroutine calls metrics.Get()
GetCall(g) ==
    /\ ~met.panicked
    /\ met.pc[g] = "idle"
    /\ met.gets[g] < MaxGets
    /\ met' = [met EXCEPT !.pc[g] = "fast"]
    /\ UNCHANGED <<users, last, wire, verdict, par>>

\* createOnce.Do: the fast path reads done; when it is set Do returns
OnceFast(g) ==
    /\ ~met.panicked
    /\ met.pc[g] = "fast"
    /\ met' = [met EXCEPT !.pc[g] = IF met.done THEN "return" ELSE "lock",
                          !.waited = @ \/ (~met.done /\ met.mutex # 0)]
    /\ UNCHANGED <<users, last, wire, verdict, par>>

\* createOnce.Do, slow path: o.m.Lock()
OnceLock(g) ==
    /\ ~met.panicked
    /\ met.pc[g] = "lock"
    /\ mutexUnlocked(met)
    /\ met' = [met EXCEPT !.mutex = g, !.pc[g] = "slow"]
    /\ UNCHANGED <<users, last, wire, verdict, par>>

\* createOnce.Do, slow path: done is read again under the mutex; f runs
\* only when it is still unset
OnceSlow(g) ==
    /\ ~met.panicked
    /\ met.pc[g] = "slow"
    /\ met' = IF met.done
              THEN [met EXCEPT !.mutex = 0, !.pc[g] = "return"]
              ELSE [met EXCEPT !.pc[g] = "new"]
    /\ UNCHANGED <<users, last, wire, verdict, par>>

\* newMetrics: m := &Metrics{...} with its histograms
NewMetricsAlloc(g) ==
    /\ ~met.panicked
    /\ met.pc[g] = "new"
    /\ met' = [met EXCEPT !.created = @ + 1,
                          !.m[g] = met.created + 1,
                          !.next[g] = 0,
                          !.pc[g] = "register"]
    /\ UNCHANGED <<users, last, wire, verdict, par>>

\* newMetrics: the next prometheus.MustRegister statement or loop; it
\* panics when a collector of the same name and labels is registered already
MustRegister(g) ==
    /\ ~met.panicked
    /\ met.pc[g] = "register"
    /\ LET k == met.next[g] + 1
       IN \E cs \in CollectorOrders(newMetrics, RegisterGroups[k]) :
             LET r == RegisterAll(cs, met.descs)
             IN met' = IF ~r.ok
                       THEN [met EXCEPT !.panicked = TRUE, !.pc[g] = "panic"]
                       ELSE [met EXCEPT !.registry[k] = @ + 1,
                                        !.descs = r.reg,
                                        !.next[g] = k,
                                        !.pc[g] = IF k = Len(RegisterGroups)
                                                  THEN "assign" ELSE "register"]
    /\ UNCHANGED <<users, last, wire, verdict, par>>

\* the closure of Get: instance = newMetrics()
AssignInstance(g) ==
    /\ ~met.panicked
    /\ met.pc[g] = "assign"
    /\ met' = [met EXCEPT !.instance = met.m[g], !.pc[g] = "unlock"]
    /\ UNCHANGED <<users, last, wire, verdict, par>>

\* createOnce.Do, slow path: the deferred done.Store(1) and o.m.Unlock()
OnceDone(g) ==
    /\ ~met.panicked
    /\ met.pc[g] = "unlock"
    /\ met' = [met EXCEPT !.done = TRUE, !.mutex = 0, !.pc[g] = "return"]
    /\ UNCHANGED <<users, last, wire, verdict, par>>

\* Get: return instance
GetReturn(g) ==
    /\ ~met.panicked
    /\ met.pc[g] = "return"
    /\ met' = [met EXCEPT !.ret[g] = met.instance,
                          !.gets[g] = @ + 1,
                          !.pc[g] = "idle"]
    /\ UNCHANGED <<users, last, wire, verdict, par>>

InitMetrics ==
    /\ users = [n \in Users |-> UserRecord(n, KmsRootCap(n), VaultOf(n), EdvRootCap(n))]
    /\ last = NoStep
    /\ wire = NoReq
    /\ verdict = NoVerdict
    /\ par = ParIdle
    /\ met = MetIdle

NextMetrics ==
    \E g \in Getters :
        \/ GetCall(g)
        \/ OnceFast(g)
        \/ OnceLock(g)
        \/ OnceSlow(g)
        \/ NewMetricsAlloc(g)
        \/ MustRegister(g)
        \/ AssignInstance(g)
        \/ OnceDone(g)
        \/ GetReturn(g)

SpecMetrics == InitMetrics /\ [][NextMetrics]_vars

\* the body of a DB timing method with every histogram of the family
\* observing
observeWholeFamily(o, m, field, dbType) ==
    [k \in HistKeys |-> IF k[1] = field THEN o[k] + 1 ELSE o[k]]

\* the body of a DB timing method on the map `field` of m:
\* if c, ok := m.field[dbType]; ok { c.Observe(value.Seconds()) }
observe(o, m, field, dbType) ==
    IF dbType \in DOMAIN m[field]
    THEN [o EXCEPT ![<<field, dbType>>] = @ + 1]
    ELSE o

\* a call of a DB timing method of the instance Get returned
DBTime(method, field, dbType) ==
    /\ met.instance # 0
    /\ ~met.panicked
    /\ met.ncalls < MaxObs
    /\ met' = [met EXCEPT !.observed = observe(@, newMetrics, field, dbType),
                          !.call = [method |-> method, dbType |-> dbType],
                          !.ncalls = @ + 1]
    /\ UNCHANGED <<users, last, wire, verdict, par>>

DBPutTime == \E dbType \in DbTypeInputs : DBTime("DBPutTime", "dbPutTimes", dbType)
DBGetTime == \E dbType \in DbTypeInputs : DBTime("DBGetTime", "dbGetTimes", dbType)
DBGetTagsTime ==
    \E dbType \in DbTypeInputs : DBTime("DBGetTagsTime", "dbGetTagsTimes", dbType)
DBGetBulkTime ==
    \E dbType \in DbTypeInputs : DBTime("DBGetBulkTime", "dbGetBulkTimes", dbType)
DBQueryTime == \E dbType \in DbTypeInputs : DBTime("DBQueryTime", "dbQueryTimes", dbType)
DBDeleteTime ==
    \E dbType \in DbTypeInputs : DBTime("DBDeleteTime", "dbDeleteTimes", dbType)
DBBatchTime == \E dbType \in DbTypeInputs : DBTime("DBBatchTime", "dbBatchTimes", dbType)

\* a timing method of a histogram that is a field of its own:
\* m.field.Observe(value.Seconds())
SingleTime(method, field) ==
    /\ met.instance # 0
    /\ ~met.panicked
    /\ met.ncalls < MaxObs
    /\ met' = [met EXCEPT !.observed[<<field, "">>] = @ + 1,
                          !.call = [method |-> method, dbType |-> ""],
                          !.ncalls = @ + 1]
    /\ UNCHANGED <<users, last, wire, verdict, par>>

CryptoSignTime == SingleTime("CryptoSignTime", "cryptoSignTime")
KeyStoreResolveTime == SingleTime("KeyStoreResolveTime", "keyStoreResolveTime")
KeyStoreGetKeyTime == SingleTime("KeyStoreGetKeyTime", "keyStoreGetKeyTime")

\* the package once a first Get has returned the instance
MetReady ==
    [MetIdle EXCEPT !.done = TRUE,
                    !.instance = 1,
                    !.created = 1,
                    !.m[1] = 1,
                    !.next[1] = Len(RegisterGroups),
                    !.registry = [k \in 1..Len(RegisterGroups) |-> 1],
                    !.descs = {HistogramAt(newMetrics, k) : k \in HistKeys},
                    !.ret[1] = 1,
                    !.gets[1] = 1]

InitObserve ==
    /\ users = [n \in Users |-> UserRecord(n, KmsRootCap(n), VaultOf(n), EdvRootCap(n))]
    /\ last = NoStep
    /\ wire = NoReq
    /\ verdict = NoVerdict
    /\ par = ParIdle
    /\ met = MetReady

NextObserve ==
    \/ DBPutTime
    \/ DBGetTime
    \/ DBGetTagsTime
    \/ DBGetBulkTime
    \/ DBQueryTime
    \/ DBDeleteTime
    \/ DBBatchTime
    \/ CryptoSignTime
    \/ KeyStoreResolveTime
    \/ KeyStoreGetKeyTime

SpecObserve == InitObserve /\ [][NextObserve]_vars

-----------------------------------------------------------------------------
(* Steps of makeParallelCreateKeyReqs *)

\* the index of the first request whose building fails, 0 when none does
FirstFailure(built) ==
    IF \E k \in DOMAIN built : built[k].err # <<>>
    THEN CHOOSE k \in DOMAIN built :
            /\ built[k].err # <<>>
            /\ \A j \in DOMAIN built : j < k => built[j].err = <<>>
    ELSE 0

\* the call up to the channels: one request is built per key type, and the
\* first failure is returned before any goroutine is started
StartParallel(userName) ==
    /\ par.pc \in {"idle", "returned"}
    /\ par.batch < MaxBatches
    /\ \A i \in Units : par.wpc[i] \in {"none", "done", "sendErr"}
    /\ \E n \in 1..MaxReqs : \E fails \in [1..n -> {"none", "prepare", "sign"}] :
          LET built == [k \in 1..n |->
                           buildCreateKeyReq(users[userName], userName, fails[k])]
              bad == FirstFailure(built)
              fresh == [ParIdle EXCEPT
                           !.user = userName,
                           !.batch = par.batch + 1,
                           !.leaked = par.leaked +
                               Cardinality({i \in Units : par.wpc[i] = "sendErr"})]
          IN par' = IF bad # 0
                    THEN [fresh EXCEPT !.pc = "returned",
                                       !.ret = <<"build create key request">>
                                                   \o built[bad].err]
                    ELSE [fresh EXCEPT !.pc = "dispatch", !.n = n, !.respCount = n]
    /\ UNCHANGED <<users, last, wire, verdict, met>>

\* the goroutine started for request i, every goroutine working on one
\* user record
startWorkerSharedUser(p, i) ==
    [p EXCEPT !.wpc[i] = "do", !.arg[i] = i, !.rec[i] = 1]

\* go func(req *http.Request) {...}(r): the goroutine started for request i
\* gets r as its argument and makes a user record of its own
startWorker(p, i) ==
    [p EXCEPT !.wpc[i] = "do", !.arg[i] = i, !.rec[i] = i]

\* go func(req): the next request gets its goroutine
Dispatch ==
    /\ par.pc = "dispatch"
    /\ LET i == par.dispatched + 1
       IN par' = [startWorker(par, i) EXCEPT
                     !.dispatched = i,
                     !.pc = IF i = par.n THEN "wait" ELSE "dispatch"]
    /\ UNCHANGED <<users, last, wire, verdict, met>>

\* the HTTP call of worker i, made again once when it fails
doRequestWithRetry(p, i, ok) ==
    [p EXCEPT !.calls[i] = @ + 1,
              !.resp[i] = IF ok THEN p.arg[i] ELSE 0,
              !.wpc[i] = IF ok THEN "process"
                         ELSE IF p.calls[i] = 0 THEN "do" ELSE "sendErr",
              !.werr[i] = IF ok \/ p.calls[i] = 0 THEN <<>> ELSE <<"HTTPError">>]

\* resp, err := s.httpClient.Do(req); an error goes to errCh
doRequest(p, i, ok) ==
    [p EXCEPT !.calls[i] = @ + 1,
              !.resp[i] = IF ok THEN p.arg[i] ELSE 0,
              !.wpc[i] = IF ok THEN "process" ELSE "sendErr",
              !.werr[i] = IF ok THEN <<>> ELSE <<"HTTPError">>]

\* worker i: s.httpClient.Do(req)
WorkerDo(i) ==
    /\ par.wpc[i] = "do"
    /\ \E ok \in BOOLEAN : par' = doRequest(par, i, ok)
    /\ UNCHANGED <<users, last, wire, verdict, met>>

\* worker i: processCreateKeyResp(usr, resp) on its own user record
WorkerProcess(i) ==
    /\ par.wpc[i] = "process"
    /\ \/ par' = [par EXCEPT !.wpc[i] = "sendErr",
                             !.werr[i] = <<"process response", "ResponseError">>]
       \/ \E s \in Statuses :
             par' = [par EXCEPT !.usr[par.rec[i]] = s,
                                !.got[i] = s,
                                !.wpc[i] = "sendStatus"]
    /\ UNCHANGED <<users, last, wire, verdict, met>>

\* worker i: statusCh <- usr.response.status (the buffer holds len(rr))
WorkerSendStatus(i) ==
    /\ par.wpc[i] = "sendStatus"
    /\ Len(par.statusCh) < par.n
    /\ par' = [par EXCEPT !.statusCh = Append(@, [from |-> i,
                                                  status |-> par.usr[par.rec[i]]]),
                          !.reported[i] = @ + 1,
                          !.wpc[i] = "done"]
    /\ UNCHANGED <<users, last, wire, verdict, met>>

\* the aggregator's loop body for an error, noting the error and going on
\* with the loop until every unit has reported
recvErrKeepWaiting(p, i) ==
    LET count == p.respCount - 1
    IN [p EXCEPT !.ret = IF @ = <<>> THEN p.werr[i] ELSE @,
                 !.wpc[i] = "done",
                 !.reported[i] = @ + 1,
                 !.respCount = count,
                 !.received[i] = @ + 1,
                 !.pc = IF count > 0 THEN "wait" ELSE "returned"]

\* the aggregator's loop body for an error: return err
recvErr(p, i) ==
    [p EXCEPT !.pc = "returned",
              !.ret = p.werr[i],
              !.wpc[i] = "done",
              !.reported[i] = @ + 1,
              !.received[i] = @ + 1]

\* the aggregator takes the error worker i is blocked sending on errCh and
\* returns it
AggRecvErr(i) ==
    /\ par.pc = "wait"
    /\ par.respCount > 0
    /\ par.wpc[i] = "sendErr"
    /\ par' = recvErr(par, i)
    /\ UNCHANGED <<users, last, wire, verdict, met>>

\* the aggregator's loop body for a status, with the exit once respCount
\* is 0, dropping out of the loop as soon as one response is outstanding
recvStatusOneEarly(p) ==
    LET m == Head(p.statusCh)
        count == p.respCount - 1
    IN [p EXCEPT !.statusCh = Tail(@),
                 !.multiRespStatus = Append(@, m.status),
                 !.respCount = count,
                 !.received[m.from] = @ + 1,
                 !.pc = IF count > 1 THEN "wait" ELSE "returned"]

\* the aggregator's loop body for a status, keeping only the status it has
\* just read
recvStatusKeepLast(p) ==
    LET m == Head(p.statusCh)
        count == p.respCount - 1
    IN [p EXCEPT !.statusCh = Tail(@),
                 !.multiRespStatus = <<m.status>>,
                 !.respCount = count,
                 !.received[m.from] = @ + 1,
                 !.pc = IF count > 0 THEN "wait" ELSE "returned"]

\* the aggregator's loop body for a status, the count of outstanding
\* responses left as it was
recvStatusNotCounting(p) ==
    LET m == Head(p.statusCh)
    IN [p EXCEPT !.statusCh = Tail(@),
                 !.multiRespStatus = Append(@, m.status),
                 !.received[m.from] = @ + 1]

\* the aggregator's loop body for a status: append, count down, and leave
\* the loop once respCount is 0
recvStatus(p) ==
    LET m == Head(p.statusCh)
        count == p.respCount - 1
    IN [p EXCEPT !.statusCh = Tail(@),
                 !.multiRespStatus = Append(@, m.status),
                 !.respCount = count,
                 !.received[m.from] = @ + 1,
                 !.pc = IF count > 0 THEN "wait" ELSE "returned"]

\* the aggregator takes a status and stores the slice in the user record at
\* once, before the remaining units have reported
AggRecvStatusStoringEarly ==
    /\ par.pc = "wait"
    /\ par.respCount > 0
    /\ par.statusCh # <<>>
    /\ par' = recvStatus(par)
    /\ users' = [users EXCEPT ![par.user].multiRespStatus = par'.multiRespStatus]
    /\ UNCHANGED <<last, wire, verdict, met>>

\* the aggregator takes a status; after the last one it stores the slice in
\* the user record and returns nil
AggRecvStatus ==
    /\ par.pc = "wait"
    /\ par.respCount > 0
    /\ par.statusCh # <<>>
    /\ par' = recvStatus(par)
    /\ users' = IF par'.pc = "returned"
                THEN [users EXCEPT ![par.user].multiRespStatus = par'.multiRespStatus]
                ELSE users
    /\ UNCHANGED <<last, wire, verdict, met>>

\* checkMultiRespStatus: every status the user's last successful call
\* collected is the expected one
checkMultiRespStatus(u, status) ==
    IF \E k \in DOMAIN u.multiRespStatus : u.multiRespStatus[k] # status
    THEN <<"expected HTTP response status">>
    ELSE <<>>

InitPar ==
    /\ users = [n \in Users |-> UserRecord(n, KmsRootCap(n), VaultOf(n), EdvRootCap(n))]
    /\ last = NoStep
    /\ wire = NoReq
    /\ verdict = NoVerdict
    /\ par = ParIdle
    /\ met = MetIdle

NextPar ==
    \/ \E u \in Users : StartParallel(u)
    \/ Dispatch
    \/ \E i \in Units : WorkerDo(i)
    \/ \E i \in Units : WorkerProcess(i)
    \/ \E i \in Units : WorkerSendStatus(i)
    \/ \E i \in Units : AggRecvErr(i)
    \/ AggRecvStatus

SpecPar == InitPar /\ [][NextPar]_vars

\* the body of the goroutine started for request i (go func(req) {...})
Worker(i) == WorkerDo(i) \/ WorkerProcess(i) \/ WorkerSendStatus(i)

\* the calling goroutine once the requests are built: the go statements and
\* the select loop
Aggregator == Dispatch \/ AggRecvStatus \/ \E i \in Units : AggRecvErr(i)

\* the Go scheduler runs every goroutine that can take a step, and every
\* HTTP call completes; nothing obliges the test to make another call
SpecParFair ==
    /\ InitPar
    /\ [][NextPar]_vars
    /\ \A i \in Units : WF_vars(Worker(i))
    /\ WF_vars(Aggregator)

-----------------------------------------------------------------------------
(* Properties of delegation *)

Delegated == last.cap # NilCap
ByDelegateCapability == last.op = "getPubKeyOfRecipient" /\ last.parent # NilCap

\* C1 (attenuation): every capability minted from a parent, by
\* delegateCapability or by createChainCapability, allows only actions its
\* parent allows.
C1_Attenuation == Delegated => ActionSet(last.cap) \subseteq ActionSet(last.parent)

\* C2: a delegation that asks for an action the parent does not allow fails
\* with a delegation error, and no capability is produced, signed or sent.
C2_SupersetDelegationFails ==
    (ByDelegateCapability /\ actionExportKey \notin ActionSet(last.parent))
        => /\ last.err # <<>>
           /\ last.err[1] = "delegate capability"
           /\ last.cap = NilCap
           /\ ~last.signed
           /\ ~last.sent

\* C3 (chain growth): the capability delegateCapability returns carries its
\* parent's chain followed by the parent's id, so the chain is one longer than
\* the parent's, and of length 1 when the parent is a root.
C3_ChainGrowth ==
    (ByDelegateCapability /\ Delegated)
        => /\ CapabilityChain(last.cap) =
                  Append(CapabilityChain(last.parent), last.parent.id)
           /\ Len(CapabilityChain(last.cap)) = Len(CapabilityChain(last.parent)) + 1
           /\ (CapabilityChain(last.parent) = <<>> => Len(CapabilityChain(last.cap)) = 1)

\* a capability delegated from a parent that is itself delegated
C3_DelegatedFromNonRoot ==
    /\ ByDelegateCapability
    /\ Delegated
    /\ Len(CapabilityChain(last.parent)) >= 1
    /\ last.parent.id \notin Range(CapabilityChain(last.parent))

\* C4 (acyclicity): no identifier occurs twice in the chain of a delegated
\* capability, and delegating from a parent whose chain already holds the
\* parent's id fails with a delegation error.
C4_Acyclic ==
    /\ Delegated => NoRepeat(CapabilityChain(last.cap))
    /\ (ByDelegateCapability /\ last.parent.id \in Range(CapabilityChain(last.parent)))
          => (last.err # <<>> /\ last.err[1] = "delegate capability" /\ last.cap = NilCap)

\* C5 (target immutability): a delegated capability has the invocation target
\* of its parent, whichever of the two functions minted it.
C5_TargetImmutable ==
    Delegated => last.cap.invocationTarget = last.parent.invocationTarget

-----------------------------------------------------------------------------
(* Properties of the invocation protocol *)

AllChecksPass(req) ==
    /\ DecompressOK(req.capability)
    /\ ChainOK(DecompressZCAP(req.capability), Registry)
    /\ ActionPermitted(req)
    /\ TargetMatches(req)
    /\ SignatureValid(req)

\* C6: the verifier authorizes a request only when the capability
\* decompresses, the chain holds hop by hop, the action is allowed, the target
\* is the resource accessed and the message signature is the invoker's; a
\* request failing any of the five is rejected.
C6_AuthorizedOnlyIfAllChecks ==
    /\ verdict.decision = "authorized" => AllChecksPass(wire)
    /\ (verdict.decision # "none" /\ ~AllChecksPass(wire)) => verdict.decision = "rejected"

\* a request of getPubKeyOfRecipient, carrying a delegated capability, that
\* the verifier authorized
C6_DelegatedRequestAuthorized ==
    /\ verdict.decision = "authorized"
    /\ last.op = "getPubKeyOfRecipient"
    /\ CapabilityChain(DecompressZCAP(wire.capability)) # <<>>

C8_SignedByLeafInvoker ==
    (last.op = "getPubKeyOfRecipient" /\ last.sent)
        => /\ wire.signature.keyId = last.cap.invoker
           /\ wire.signature.keyId = DecompressZCAP(wire.capability).invoker
           /\ wire.signature.keyId = Controller(last.user)
           /\ PrincipalOfKey(wire.signature.key) = wire.signature.keyId

\* a request sent for a user on a capability delegated by another user
C8_SentAcrossUsers ==
    /\ last.op = "getPubKeyOfRecipient"
    /\ last.sent
    /\ last.user # last.recipient

\* the user that holds the parent capability and delegates it
Delegator == IF last.op = "getPubKeyOfRecipient" THEN last.recipient ELSE last.user

\* C9: the proof of a delegated capability is made by the delegating user:
\* its verification method is the controller of the holder of the parent
\* capability, and the signature is made with that user's key, not the new
\* invoker's.
C9_ProofByDelegator ==
    Delegated
        => /\ Len(last.cap.proof) = 1
           /\ last.cap.proof[1].verificationMethod = Controller(Delegator)
           /\ last.cap.proof[1].verificationMethod = last.parent.invoker
           /\ last.cap.proof[1].signatureValue.key = Delegator
           /\ (last.cap.invoker # Controller(Delegator)
                  => last.cap.proof[1].verificationMethod # last.cap.invoker)

\* a capability delegated to a user other than the delegator
C9_DelegatedToAnother ==
    /\ ByDelegateCapability
    /\ Delegated
    /\ last.user # last.recipient
    /\ last.cap.invoker = Controller(last.user)

-----------------------------------------------------------------------------
(* Properties of makeParallelCreateKeyReqs *)

Dispatched == 1..par.n

ReturnedNil == par.pc = "returned" /\ par.n > 0 /\ par.ret = <<>>
ReturnedError == par.pc = "returned" /\ par.n > 0 /\ par.ret # <<>>

\* C10, as stated: the aggregator does not return before it has received one
\* outcome of every dispatched unit, and never more than one of a unit.
C10_ReturnsAfterEveryOutcome ==
    /\ \A i \in Units : par.received[i] <= 1
    /\ (par.pc = "returned" /\ par.n > 0) => \A i \in Dispatched : par.received[i] = 1

\* C10, amended: the aggregator never takes more than one outcome of a unit;
\* it returns nil only once it has received the status of every dispatched
\* unit, and it returns an error as soon as it has received one, with the
\* units it has not heard from left outstanding.
C10_OneOutcomePerUnit ==
    /\ \A i \in Units : par.received[i] <= 1
    /\ \A i \in Units : par.received[i] = 1 => i \in Dispatched
    /\ ReturnedNil =>
          /\ \A i \in Dispatched : par.received[i] = 1
          /\ Len(par.multiRespStatus) = par.n
          /\ par.respCount = 0
    /\ ReturnedError =>
          /\ \E i \in Dispatched : par.received[i] = 1 /\ par.werr[i] = par.ret
          /\ Cardinality({i \in Dispatched : par.received[i] = 1})
                 = (par.n - par.respCount) + 1
    /\ (par.pc = "wait" /\ par.respCount > 0)
          => Cardinality({i \in Dispatched : par.received[i] = 1}) = par.n - par.respCount

\* a call of two requests that returned nil
C10_AllSucceeded == ReturnedNil /\ par.n >= 2

\* C11 (fail-fast): when the aggregator takes an error off errCh it returns
\* that error at once; the step collects nothing else, leaves every other
\* worker where it is and sends none of them anything.
C11_FailFast ==
    [][\A i \in Units :
          (par.pc = "wait" /\ par.wpc[i] = "sendErr"
              /\ par'.received[i] = par.received[i] + 1)
          => /\ par'.pc = "returned"
             /\ par'.ret = par.werr[i]
             /\ par'.ret # <<>>
             /\ par'.statusCh = par.statusCh
             /\ par'.multiRespStatus = par.multiRespStatus
             /\ \A j \in Units \ {i} :
                   /\ par'.wpc[j] = par.wpc[j]
                   /\ par'.received[j] = par.received[j]
             /\ users' = users]_vars

\* the call has returned a worker's error while another unit is still in
\* flight and a third outcome, or none, was collected
C11_ReturnedWithSiblingInFlight ==
    /\ ReturnedError
    /\ \E j \in Dispatched : par.received[j] = 0 /\ par.wpc[j] \in {"do", "process"}

\* how many times s occurs in the sequence q
RECURSIVE Count(_, _)
Count(q, s) ==
    IF q = <<>> THEN 0
    ELSE (IF Head(q) = s THEN 1 ELSE 0) + Count(Tail(q), s)

\* C12: a call that returns nil has stored in u.multiRespStatus exactly one
\* status per dispatched request, the same statuses, counted with
\* multiplicity, as the workers read off their responses, in whatever order
\* the workers finished; and a call none of whose workers failed does not
\* return an error.
C12_AllStatusesCollected ==
    /\ ReturnedNil =>
          /\ users[par.user].multiRespStatus = par.multiRespStatus
          /\ Len(users[par.user].multiRespStatus) = par.n
          /\ \A s \in Statuses :
                Count(users[par.user].multiRespStatus, s)
                    = Cardinality({i \in Dispatched : par.got[i] = s})
          /\ \A i \in Dispatched : par.werr[i] = <<>> /\ par.wpc[i] = "done"
    /\ ReturnedError => \E i \in Dispatched : par.werr[i] # <<>>

\* a call of two requests that returned nil with the second request's status
\* collected first
C12_CollectedOutOfDispatchOrder ==
    /\ ReturnedNil
    /\ par.n = 2
    /\ par.got[1] # par.got[2]
    /\ users[par.user].multiRespStatus[1] = par.got[2]

\* the workers started by the call in progress
Started == {i \in Units : par.wpc[i] # "none"}

\* every worker has its own request and its own user record, the response it
\* holds answers its own request, and what it reports is what it read
OwnRequestOwnRecord ==
    /\ \A i \in Started :
          /\ par.arg[i] = i
          /\ par.resp[i] \in {0, par.arg[i]}
          /\ par.usr[par.rec[i]] = par.got[i]
    /\ \A i, j \in Started : par.rec[i] = par.rec[j] => i = j
    /\ \A k \in 1..Len(par.statusCh) :
          par.statusCh[k].status = par.got[par.statusCh[k].from]

\* a step within a call writes a user record of a worker only as that
\* worker's own step, and writes the caller's user only as the aggregator's
\* return, which changes multiRespStatus and nothing else
DisjointWrites ==
    par'.batch = par.batch =>
        /\ \A k \in Units :
              par'.usr[k] # par.usr[k]
                  => /\ \E i \in Started : par.rec[i] = k /\ par.wpc[i] = "process"
                                              /\ par'.wpc[i] = "sendStatus"
                     /\ users' = users
                     /\ par'.multiRespStatus = par.multiRespStatus
        /\ users' # users
              => /\ par.pc = "wait" /\ par'.pc = "returned"
                 /\ par'.usr = par.usr
                 /\ \A u \in Users :
                       [users'[u] EXCEPT !.multiRespStatus = users[u].multiRespStatus]
                           = users[u]

\* C13 (no cross-contamination): each worker works on its own request and
\* its own user record and reports the status of its own response, and no
\* step of one party writes what another party writes.
C13_NoCrossContamination == []OwnRequestOwnRecord /\ [][DisjointWrites]_vars

\* two workers have reported different statuses, the second before the first
C13_TwoWorkersReportedDifferently ==
    /\ Len(par.statusCh) = 2
    /\ par.statusCh[1].from = 2
    /\ par.statusCh[2].from = 1
    /\ par.statusCh[1].status # par.statusCh[2].status

\* a worker makes one HTTP call at most, has made one once it is past the
\* call, and completes one channel send at most: a status or an error, the
\* error only when its call or its response processing failed
OneCallOneOutcome ==
    \A i \in Units :
        /\ par.calls[i] <= 1
        /\ par.reported[i] <= 1
        /\ par.wpc[i] \in {"process", "sendStatus", "sendErr", "done"} => par.calls[i] = 1
        /\ par.wpc[i] \in {"none", "do"} => par.calls[i] = 0
        /\ par.wpc[i] = "done" <=> par.reported[i] = 1
        /\ (par.wpc[i] = "sendErr" \/ (par.wpc[i] = "done" /\ par.werr[i] # <<>>))
              => \A k \in 1..Len(par.statusCh) : par.statusCh[k].from # i

\* within a call a worker only moves forward: one that failed or finished is
\* not started again and makes no further call
NeverRedispatched ==
    par'.batch = par.batch =>
        \A i \in Units :
            /\ par.wpc[i] = "sendErr" => par'.wpc[i] \in {"sendErr", "done"}
            /\ par.wpc[i] = "done" => par'.wpc[i] = "done"
            /\ par.wpc[i] \in {"sendErr", "done"} => par'.calls[i] = par.calls[i]
            /\ par.wpc[i] # "none" => par'.arg[i] = par.arg[i]

\* C14 (no retries): each dispatched unit makes one HTTP call and delivers
\* one outcome at most, and a unit that failed is terminal.
C14_NoRetries == []OneCallOneOutcome /\ [][NeverRedispatched]_vars

\* a unit whose HTTP call failed has delivered its error after one call
C14_FailedUnitReportedOnce ==
    \E i \in Dispatched :
        /\ par.werr[i] = <<"HTTPError">>
        /\ par.wpc[i] = "done"
        /\ par.calls[i] = 1
        /\ par.reported[i] = 1

-----------------------------------------------------------------------------
(* Properties of signed requests *)

\* the action a step asks for
ActionOfStep ==
    IF last.op = "makeCreateKeyReq" THEN actionCreateKey ELSE actionExportKey

\* C15: a request handed to httpClient.Do carries the capability-invocation
\* header, capability and action, and a message signature computed over the
\* request with that header on it; a step whose header or signing call
\* returned an error hands over nothing.
C15_HeaderThenSignatureThenSend ==
    /\ last.sent =>
          /\ wire # NoReq
          /\ wire.capability # NoBytes
          /\ wire.capability.enc = <<"base64url", "gzip">>
          /\ wire.action = ActionOfStep
          /\ wire.signature # NoSig
          /\ wire.signature.covered = Covered(wire)
          /\ last.signed
    /\ ~last.sent => wire = NoReq
    /\ (last.op # "" /\ ~last.signed) => ~last.sent
    /\ (last.err # <<>> /\ last.err[Len(last.err)] \in {"InvocationError", "SignError"})
          => ~last.sent

\* an export-key request of a step that signs with user.Sign was handed over
C15_ExportRequestSent ==
    /\ last.op = "makeExportPubKeyReq"
    /\ last.sent
    /\ wire.action = actionExportKey

-----------------------------------------------------------------------------
(* Frame properties *)

\* C16: getPubKeyOfRecipient's call of delegateCapability, whether it returns
\* a capability or an error, leaves the parent capability, its proof and the
\* chain in it included, as it was, and every other user record with it; the
\* capability it returns is another object with another id.
C16_ParentUnchanged ==
    [][last'.op = "getPubKeyOfRecipient"
          => /\ users' = users
             /\ last'.parent # NilCap
                   => /\ users'[last'.recipient].kmsCapability = last'.parent
                      /\ last'.parent = users[last'.recipient].kmsCapability
             /\ last'.cap # NilCap
                   => /\ last'.cap.id # last'.parent.id
                      /\ last'.cap # last'.parent]_vars

\* a capability was delegated from a parent that carries a chain in its
\* proof, and the parent is still what the user holds
C16_DelegatedFromParentWithChain ==
    /\ ByDelegateCapability
    /\ Delegated
    /\ last.parent.proof[1].hasChain
    /\ last.parent.proof[1].capabilityChain # <<>>
    /\ users[last.recipient].kmsCapability = last.parent

\* C17 (root shape): the capability a user holds as kmsCapability after
\* keystore creation is a root capability: its chain is empty, its parent is
\* empty, and it has exactly one proof entry.
C17_RootShape ==
    \A u \in Users :
        users[u].kmsCapability # NilCap
            => /\ CapabilityChain(users[u].kmsCapability) = <<>>
               /\ users[u].kmsCapability.parent = ""
               /\ Len(users[u].kmsCapability.proof) = 1
               /\ users[u].kmsCapability \in IssuedCaps(u)

\* both users hold a root capability and one has delegated from it
C17_RootsStoredAndUsed ==
    /\ \A u \in Users : users[u].kmsCapability # NilCap
    /\ ByDelegateCapability
    /\ Delegated

-----------------------------------------------------------------------------
(* Properties of the transport encoding *)

\* c comes back from compression and decompression field for field
RoundTrips(c) ==
    LET d == Decompress(CompressZCAP(c))
    IN /\ d.id = c.id
       /\ d.invoker = c.invoker
       /\ d.parent = c.parent
       /\ d.invocationTarget = c.invocationTarget
       /\ d.allowedAction = c.allowedAction
       /\ CapabilityChain(d) = CapabilityChain(c)
       /\ d.proof = c.proof
       /\ d = c

-----------------------------------------------------------------------------
(* Properties of the metrics singleton *)

FullyRegistered == \A k \in 1..Len(RegisterGroups) : met.registry[k] = 1

\* C19: however the callers of Get interleave, newMetrics runs once at most
\* and never panics on a registration, no collector is registered twice, at
\* most one caller is inside newMetrics, and every Get returns the one
\* instance, non-nil and with all its collectors registered.
C19_SingletonInitializedOnce ==
    /\ met.created <= 1
    /\ ~met.panicked
    /\ \A k \in 1..Len(RegisterGroups) : met.registry[k] <= 1
    /\ Cardinality({g \in Getters : met.pc[g] \in {"new", "register", "assign", "unlock"}}) <= 1
    /\ met.instance # 0 => (met.instance = 1 /\ FullyRegistered)
    /\ \A g \in Getters :
          /\ met.pc[g] = "return" => (met.instance # 0 /\ met.done /\ FullyRegistered)
          /\ met.gets[g] > 0 =>
                /\ met.ret[g] # 0
                /\ met.ret[g] = met.instance
                /\ met.created = 1
                /\ FullyRegistered
    /\ \A g, h \in Getters :
          (met.gets[g] > 0 /\ met.gets[h] > 0) => met.ret[g] = met.ret[h]

\* two callers have each got the instance, one of them after finding the
\* other inside createOnce.Do
C19_TwoCallersAfterContention ==
    /\ met.waited
    /\ \E g, h \in Getters : g # h /\ met.gets[g] > 0 /\ met.gets[h] > 0

-----------------------------------------------------------------------------
(* Properties of the message signature *)

\* the request on the wire differs from the one sent in method, path or
\* capability-invocation header
CoveredFieldChanged ==
    \/ wire.method # verdict.orig.method
    \/ wire.keystoreID # verdict.orig.keystoreID
    \/ wire.endpoint # verdict.orig.endpoint
    \/ wire.capability # verdict.orig.capability
    \/ wire.action # verdict.orig.action

-----------------------------------------------------------------------------
(* Properties of createChainCapability *)

\* C21: the capability createChainCapability mints from the user's EDV
\* capability P carries P's chain followed by P's id, whatever the length of
\* P's chain, and no empty identifier.
C21_ChainFromEdvCapability ==
    (last.op = "createChainCapability" /\ Delegated)
        => /\ CapabilityChain(last.cap) =
                  Append(CapabilityChain(last.parent), last.parent.id)
           /\ "" \notin Range(CapabilityChain(last.cap))

(* Properties of the goroutines of makeParallelCreateKeyReqs *)

\* the positions of a worker that has been started and has not finished
Running == {"do", "process", "sendStatus", "sendErr"}

\* C22: every worker goroutine of makeParallelCreateKeyReqs eventually
\* terminates: none stays blocked on a channel send after the aggregator has
\* returned, also when two or more workers fail.
C22_WorkersTerminate ==
    /\ [](par.leaked = 0)
    /\ \A i \in Units : (par.wpc[i] \in Running) ~> (par.wpc[i] = "done")

\* C23: with every HTTP call completing and fair scheduling, a call of
\* makeParallelCreateKeyReqs that has started its goroutines always returns.
C23_AlwaysReturns ==
    (par.pc \in {"dispatch", "wait"}) ~> (par.pc = "returned")

\* the call has returned an error while another worker that failed is still
\* at its send on errCh
C23_ReturnedPastBlockedWorker ==
    /\ par.pc = "returned"
    /\ par.ret # <<>>
    /\ par.dispatched = par.n
    /\ \E i \in Units : par.wpc[i] = "sendErr"

\* C24: a call of makeParallelCreateKeyReqs that returns an error, from a
\* request that could not be built or from a worker, leaves the user's
\* multiRespStatus as it was: the record changes only in the step that
\* returns nil, so checkMultiRespStatus goes on reading the earlier batch.
C24_ErrorLeavesStatusesUntouched ==
    [][users' # users =>
          /\ par.pc = "wait"
          /\ par'.pc = "returned"
          /\ par'.ret = <<>>
          /\ \A u \in Users : u # par.user => users'[u] = users[u]]_vars

\* a second call for the same user has failed, by a worker or at building,
\* and the statuses of the first are still what checkMultiRespStatus accepts
C24_FailedCallAfterStoredBatch ==
    /\ par.pc = "returned"
    /\ par.ret # <<>>
    /\ par.batch = 2
    /\ users[par.user].multiRespStatus # <<>>
    /\ checkMultiRespStatus(users[par.user], "201 Created") = <<>>
    /\ checkMultiRespStatus(users[par.user], "403 Forbidden") # <<>>

(* Properties of the header getPubKeyOfRecipient sets *)

\* C25: in getPubKeyOfRecipient the action named in the capability-invocation
\* header is one of the allowed actions of the capability in that header, the
\* delegated one, whatever the parent it was delegated from allows: both are
\* export-key.
C25_HeaderActionAllowedByHeaderCapability ==
    (last.op = "getPubKeyOfRecipient" /\ last.sent)
        => /\ wire.action = actionExportKey
           /\ DecompressZCAP(wire.capability) = last.cap
           /\ wire.action \in ActionSet(DecompressZCAP(wire.capability))
           /\ ActionSet(DecompressZCAP(wire.capability)) = {actionExportKey}

\* a request sent by getPubKeyOfRecipient on a capability delegated from a
\* parent that does not allow export-key itself
C25_SentFromParentWithoutExportKey ==
    /\ last.op = "getPubKeyOfRecipient"
    /\ last.sent
    /\ actionExportKey \notin ActionSet(last.parent)
    /\ ActionPermitted(wire)

(* Properties of createKeystoreReq *)

\* C26: a call of createKeystoreReq that returns an error, at the HTTP call,
\* at processing the response or at parsing the capability, leaves the user's
\* keystoreID and kmsCapability as they were; and a kmsCapability that is set
\* is never made nil by a later call.
C26_FailedCreateKeystoreChangesNothing ==
    [][/\ (last'.op = "createKeystoreReq" /\ last'.err # <<>>)
            => /\ users'[last'.user].keystoreID = users[last'.user].keystoreID
               /\ users'[last'.user].kmsCapability = users[last'.user].kmsCapability
       /\ \A u \in Users :
             users[u].kmsCapability # NilCap => users'[u].kmsCapability # NilCap]_vars

(* Properties of the histograms *)

DBMethods ==
    {"DBPutTime", "DBGetTime", "DBGetTagsTime", "DBGetBulkTime", "DBQueryTime",
     "DBDeleteTime", "DBBatchTime"}

\* the map a DB timing method looks its histogram up in
FieldOf(method) ==
    CASE method = "DBPutTime" -> "dbPutTimes"
      [] method = "DBGetTime" -> "dbGetTimes"
      [] method = "DBGetTagsTime" -> "dbGetTagsTimes"
      [] method = "DBGetBulkTime" -> "dbGetBulkTimes"
      [] method = "DBQueryTime" -> "dbQueryTimes"
      [] method = "DBDeleteTime" -> "dbDeleteTimes"
      [] method = "DBBatchTime" -> "dbBatchTimes"
      [] OTHER -> ""

\* C27: a call of a DB timing method with db type t changes no histogram
\* but the one of the method's family whose type label is t, and that one by
\* a single observation; with a t that is not CouchDB, MongoDB or EDV it
\* changes nothing, and it raises no error.
C27_OneHistogramPerTimingCall ==
    [][(met'.ncalls = met.ncalls + 1 /\ met'.call.method \in DBMethods)
          => LET t == met'.call.dbType
                 hit == <<FieldOf(met'.call.method), t>>
             IN /\ \A k \in HistKeys :
                      k # hit => met'.observed[k] = met.observed[k]
                /\ hit \in HistKeys
                      => /\ met'.observed[hit] = met.observed[hit] + 1
                         /\ HistogramAt(newMetrics, hit).constLabels = {<<"type", t>>}
                /\ t \notin {"CouchDB", "MongoDB", "EDV"}
                      => met'.observed = met.observed
                /\ ~met'.panicked
                /\ met'.descs = met.descs]_vars

\* a DB timing method was called with a db type that has no histogram, after
\* a call that one histogram observed
C27_UnknownTypeAfterKnown ==
    /\ met.call.method \in DBMethods
    /\ met.call.dbType \notin Range(dbTypes)
    /\ met.ncalls = 2
    /\ \E k \in HistKeys : k[2] # "" /\ met.observed[k] = 1

\* C28: once newMetrics has run, each of its histograms, three of their own
\* and three of each of the seven DB families, is in the registry exactly
\* once, no two of them have the same fully-qualified name and label values,
\* and no registration failed.
C28_EveryHistogramRegisteredOnce ==
    /\ ~met.panicked
    /\ \A j, k \in HistKeys :
          j # k => DescID(HistogramAt(newMetrics, j)) # DescID(HistogramAt(newMetrics, k))
    /\ Cardinality(HistKeys) = 3 + 7 * 3
    /\ \A k \in 1..Len(RegisterGroups) : met.registry[k] <= 1
    /\ met.instance # 0
          => /\ met.descs = {HistogramAt(newMetrics, k) : k \in HistKeys}
             /\ Cardinality({DescID(d) : d \in met.descs}) = Cardinality(HistKeys)
             /\ FullyRegistered

\* newMetrics has run to its end and Get has handed out the instance
C28_InstanceWithAllHistograms ==
    /\ met.instance # 0
    /\ Cardinality(met.descs) = Cardinality(HistKeys)
    /\ \E g \in Getters : met.ret[g] = met.instance

=============================================================================
